---- MODULE Spec2Model ----
(***************************************************************************)
(* G-code sender (src/sender.py): the streaming state machine of           *)
(* GCodeSenderWindow (SenderState, the slots start/pause/stop/open/        *)
(* send_immediate, the timer callback _tick and the slot on_line_received) *)
(* together with the SerialWorker thread, its outbound queue, the queued   *)
(* signal deliveries into the GUI thread and the device behind the serial  *)
(* channel.                                                                *)
(*                                                                         *)
(* The operations are the methods of the window; which buttons are enabled *)
(* is presentation state and is not modelled.  Python indexes from 0, TLA+ *)
(* sequences from 1: gcode_lines[index] of the code is gcode_lines[index+1]*)
(* here.                                                                   *)
(***************************************************************************)
EXTENDS Integers, Sequences, FiniteSets, TLC

\* ---------------------------------------------------------------- bounds
MaxProgLen == 2
MaxInFlight == 2

MaxFileLen == 2

\* ---------------------------------------------------------------- inputs
\* The programs a load can produce: the first n lines of one sanitized
\* source, so that every position of a program holds a different line.
Master == <<"G0 X10", "G1 Y5 F100", "G1 Z2", "G0 X0 Y0", "M5">>

Programs == {SubSeq(Master, 1, n) : n \in 0..MaxProgLen}

\* Commands of the immediate buttons (feed hold and home, two of the four:
\* send_immediate does not look at the command).
ImmediateCmds == {"!", "$H"}

\* Entries of the port combo box: the simulator entry and one real device.
Ports == {"SIMULATED", "/dev/ttyUSB0"}

VARIABLES
    HAS_SERIAL,     \* module flag: the serial library was importable
    port,           \* current text of the port combo box
    gcode_lines,    \* state.gcode_lines
    index,          \* state.index
    running,        \* state.running
    paused,         \* state.paused
    ok_to_send,     \* state.ok_to_send
    timer,          \* the tick QTimer is active
    shots,          \* pending QTimer.singleShot(20, on_line_received("ok"))
    worker,         \* FALSE: self.worker is None; TRUE: a SerialWorker
    w_pc,           \* position of the worker thread in run()
    w_running,      \* worker._running
    w_tx,           \* worker._tx
    w_ser,          \* worker._ser is an open port
    w_emitted,      \* connected/error signals the worker has emitted, in order
    dev_in,         \* lines written to the channel, not yet handled by the device
    dev_out,        \* raw lines the device sent, not yet read by the worker
    events,         \* line_received emissions queued for the GUI thread
    op,             \* history: the operation that made the last step
    handed,         \* history: program lines handed to a worker since the load
    fresh_start,    \* history: an accepted start with no line sent since
    awaiting,       \* history: a program line went to a connected worker; no
                    \* inbound ok, load, start or stop since
    tool_marker,    \* preview.tool_marker: whether it is drawn, and where
    chosen_file     \* loader scenario: the raw lines of the file in the dialog

state == <<gcode_lines, index, running, paused, ok_to_send>>

wvars == <<worker, w_pc, w_running, w_tx, w_ser, w_emitted>>

chan == <<dev_in, dev_out>>

hist == <<handed, fresh_start, awaiting>>

vars == <<HAS_SERIAL, port, state, timer, shots, wvars, chan, events, op, hist,
          tool_marker, chosen_file>>

\* ------------------------------------------------------- text of a line
Whitespace == {" ", "\t", "\n", "\r"}

RECURSIVE LStrip(_)
LStrip(s) == IF s # <<>> /\ Head(s) \in Whitespace THEN LStrip(Tail(s)) ELSE s

RECURSIVE RStrip(_)
RStrip(s) ==
    IF s # <<>> /\ s[Len(s)] \in Whitespace THEN RStrip(SubSeq(s, 1, Len(s) - 1)) ELSE s

\* str.strip()
Strip(s) == RStrip(LStrip(s))

LowerChar(c) == CASE c = "O" -> "o" [] c = "K" -> "k" [] OTHER -> c

\* str.lower()
Lower(s) == [i \in 1..Len(s) |-> LowerChar(s[i])]

\* str.startswith("ok")
StartsWithOk(s) == Len(s) >= 2 /\ s[1] = "o" /\ s[2] = "k"

\* The test of on_line_received.
IsAck_UpperOnly(line) == Strip(line) = <<"O", "K">>

IsAck_CaseSensitive(line) == StartsWithOk(Strip(line))

IsAck(line) == StartsWithOk(Lower(Strip(line)))

\* The line the simulator emits, and the raw reply of a device.
SimOk == <<"o", "k">>

DeviceOk == <<"o", "k", "\r", "\n">>

\* ------------------------------------------------------- loader
Digits == {"0", "1", "2", "3", "4", "5", "6", "7", "8", "9"}

\* GCODE_LINE_RE.match(s): ^\s*([GMT]\d+|;|#|\()
GCODE_LINE_RE_NoHash(s) ==
    LET t == LStrip(s)
    IN  /\ t # <<>>
        /\ \/ t[1] \in {"G", "M", "T"} /\ Len(t) >= 2 /\ t[2] \in Digits
           \/ t[1] \in {";", "("}

GCODE_LINE_RE(s) ==
    LET t == LStrip(s)
    IN  /\ t # <<>>
        /\ \/ t[1] \in {"G", "M", "T"} /\ Len(t) >= 2 /\ t[2] \in Digits
           \/ t[1] \in {";", "#", "("}

\* is_gcode_line
is_gcode_line(line) ==
    LET ln == Strip(line)
    IN  ln # <<>> /\ ln[1] \notin {";", "("} /\ GCODE_LINE_RE(ln)

\* Where COMMENT_RE, \s*(;.*|\(.*\))\s*$, can match: at a ";" (the rest of
\* the line is the comment), or at a "(" when the line, trailing white space
\* aside, ends with a later ")".
COMMENT_RE(s) ==
    {k \in 1..Len(s) :
        \/ s[k] = ";"
        \/ /\ s[k] = "("
           /\ Len(RStrip(s)) > k
           /\ RStrip(s)[Len(RStrip(s))] = ")"}

\* strip_comment: the leftmost match runs to the end of the line and is cut
\* (with the white space before it), then str.strip().
strip_comment(line) ==
    IF COMMENT_RE(line) = {} THEN Strip(line)
    ELSE LET k == CHOOSE k \in COMMENT_RE(line) : \A j \in COMMENT_RE(line) : k <= j
         IN  Strip(SubSeq(line, 1, k - 1))

\* lines = [strip_comment(l) for l in raw if is_gcode_line(l)]
Loaded(raw) ==
    LET kept == SelectSeq(raw, is_gcode_line)
    IN  [i \in 1..Len(kept) |-> strip_comment(kept[i])]

\* Raw lines a file can hold (str.splitlines has removed the line ends).
RawLines ==
    { <<"G", "0", " ", "X", "1">>,
      <<"G", "1", " ", "X", "2", " ", ";", "c">>,
      <<" ", "M", "3">>,
      <<"T", "1", "(", "c", ")">>,
      <<";", "c">>,
      <<"(", "c", ")">>,
      <<"#", "c">>,
      <<"X", "5">>,
      <<"G">>,
      <<"g", "0">>,
      <<" ", " ">>,
      <<>> }

Files == UNION {[1..n -> RawLines] : n \in 0..MaxFileLen}

\* ------------------------------------------------------- tool marker
\* The words of a program line: a letter and the number after it.
Words(line) ==
    CASE line = "G0 X10" -> <<[letter |-> "G", number |-> 0], [letter |-> "X", number |-> 10]>>
      [] line = "G1 Y5 F100" -> <<[letter |-> "G", number |-> 1], [letter |-> "Y", number |-> 5],
                                 [letter |-> "F", number |-> 100]>>
      [] line = "G1 Z2" -> <<[letter |-> "G", number |-> 1], [letter |-> "Z", number |-> 2]>>
      [] line = "G0 X0 Y0" -> <<[letter |-> "G", number |-> 0], [letter |-> "X", number |-> 0],
                               [letter |-> "Y", number |-> 0]>>
      [] OTHER -> <<[letter |-> "M", number |-> 5]>>

Axes == {"X", "Y", "Z"}

Origin == [a \in Axes |-> 0]

\* re.findall(r"[XYZ]-?\d+\.?\d*", line.upper()): the X, Y and Z words.
FindAxisWords(line) == SelectSeq(Words(line), LAMBDA w : w.letter \in Axes)

\* {c[0]: float(c[1:]) for c in m}: the last word of an axis wins.
Coords(line) ==
    LET m == FindAxisWords(line)
        named == {m[i].letter : i \in 1..Len(m)}
        last(a) == CHOOSE i \in 1..Len(m) :
                      /\ m[i].letter = a
                      /\ \A j \in (i + 1)..Len(m) : m[j].letter # a
    IN  [a \in named |-> m[last(a)].number]

\* The arguments of update_tool if an axis the line does not name stayed put.
ToolTarget_KeepUnnamed(line) ==
    [a \in Axes |-> IF a \in DOMAIN Coords(line) THEN Coords(line)[a]
                    ELSE tool_marker.at[a]]

\* coords.get(axis, 0.0) for the three axes: the arguments of update_tool.
ToolTarget(line) ==
    [a \in Axes |-> IF a \in DOMAIN Coords(line) THEN Coords(line)[a] ELSE 0]

\* ------------------------------------------------------- worker helpers
\* QThread.isRunning(): from start() until run() has returned.
IsRunningThread == worker /\ w_pc # "finished"

\* "self.worker and self.worker.is_connected"
WorkerConnected == worker /\ w_running

\* Lines and acknowledgments under way: in the worker's queue, in the
\* channel, queued for the GUI thread, or pending as a single-shot timer.
InFlight == Len(w_tx) + Len(dev_in) + Len(dev_out) + Len(events) + shots

\* A line_received emission; "of" records the kind of line it answers.
LineReceived(line, of) == [arg |-> line, of |-> of]

\* ---------------------------------------------------------------- Init
Constructed ==
    /\ HAS_SERIAL \in BOOLEAN
    /\ port \in (IF HAS_SERIAL THEN Ports ELSE {"SIMULATED"})
    /\ gcode_lines = <<>>
    /\ index = 0
    /\ running = FALSE
    /\ paused = FALSE
    /\ ok_to_send = TRUE
    /\ timer = FALSE
    /\ shots = 0
    /\ worker = FALSE
    /\ w_pc = "none"
    /\ w_running = FALSE
    /\ w_tx = <<>>
    /\ w_ser = FALSE
    /\ w_emitted = <<>>
    /\ dev_in = <<>>
    /\ dev_out = <<>>
    /\ events = <<>>
    /\ op = "init"
    /\ handed = <<>>
    /\ fresh_start = "no"
    /\ awaiting = FALSE
    /\ tool_marker = [shown |-> FALSE, at |-> Origin]

\* Outside the loader scenario a load is given its sendable lines directly.
Init == Constructed /\ chosen_file = <<>>

\* ------------------------------------------------- GUI thread: serial
\* connect_serial: a new SerialWorker is created and started unless the
\* current one's thread is still running.
ConnectSerial ==
    /\ op' = "connect"
    /\ IF ~worker \/ ~IsRunningThread
       THEN /\ worker' = TRUE
            /\ w_pc' = "start"
            /\ w_running' = FALSE
            /\ w_tx' = <<>>
            /\ w_ser' = FALSE
            /\ w_emitted' = <<>>
       ELSE UNCHANGED wvars
    /\ UNCHANGED <<HAS_SERIAL, port, chosen_file, tool_marker, state, timer, shots, chan, events, hist>>

\* SerialWorker.stop
WorkerStop == w_running' = FALSE

\* disconnect_serial
DisconnectSerial_NoRunningTest ==
    /\ op' = "disconnect"
    /\ IF worker THEN WorkerStop ELSE UNCHANGED w_running
    /\ UNCHANGED <<HAS_SERIAL, port, chosen_file, tool_marker, state, timer, shots, worker, w_pc, w_tx,
                   w_ser, w_emitted, chan, events, hist>>

DisconnectSerial ==
    /\ op' = "disconnect"
    /\ IF worker /\ IsRunningThread THEN WorkerStop ELSE UNCHANGED w_running
    /\ UNCHANGED <<HAS_SERIAL, port, chosen_file, tool_marker, state, timer, shots, worker, w_pc, w_tx,
                   w_ser, w_emitted, chan, events, hist>>

\* ------------------------------------------------- GUI thread: program
\* SenderState(gcode_lines = p): the dataclass defaults.
NewSenderState_KeepIndex(p) ==
    [gcode_lines |-> p, index |-> index, running |-> FALSE, paused |-> FALSE,
     ok_to_send |-> TRUE]

NewSenderState(p) ==
    [gcode_lines |-> p, index |-> 0, running |-> FALSE, paused |-> FALSE,
     ok_to_send |-> TRUE]

\* open_gcode with a readable file whose sendable lines are p: the state is
\* replaced by a new SenderState(gcode_lines = p).
OpenGcode(p) ==
    /\ op' = "load"
    /\ gcode_lines' = NewSenderState(p).gcode_lines
    /\ index' = NewSenderState(p).index
    /\ running' = NewSenderState(p).running
    /\ paused' = NewSenderState(p).paused
    /\ ok_to_send' = NewSenderState(p).ok_to_send
    /\ handed' = <<>>
    /\ fresh_start' = "no"
    /\ awaiting' = FALSE
    /\ tool_marker' = [shown |-> TRUE, at |-> Origin]
    /\ UNCHANGED <<HAS_SERIAL, port, chosen_file, timer, shots, wvars, chan, events>>

\* open_gcode when the dialog is cancelled or the file cannot be read.
OpenGcodeNone == UNCHANGED vars

\* ------------------------------------------------- GUI thread: controls
\* The sender was stopped in the middle of its program: not running with
\* 0 < index < len (a load leaves index 0, a completion leaves index = len).
StoppedMid == ~running /\ 0 < index /\ index < Len(gcode_lines)

\* The two refusals of start_sending: not connected, or nothing loaded.
StartRejected_NoConnectionTest == gcode_lines = <<>>

StartRejected == ~WorkerConnected \/ gcode_lines = <<>>

\* start_sending
StartSending ==
    /\ op' = "start"
    /\ awaiting' = FALSE
    /\ IF StartRejected
       THEN UNCHANGED <<state, timer, fresh_start>>
       ELSE /\ running' = TRUE
            /\ paused' = FALSE
            /\ ok_to_send' = TRUE
            /\ timer' = TRUE
            /\ fresh_start' = (IF StoppedMid THEN "after_stop_mid" ELSE "plain")
            /\ UNCHANGED <<gcode_lines, index>>
    /\ UNCHANGED <<HAS_SERIAL, port, chosen_file, tool_marker, shots, wvars, chan, events, handed>>

\* pause_sending
PauseSending_Unguarded ==
    /\ op' = "pause"
    /\ paused' = ~paused
    /\ UNCHANGED <<HAS_SERIAL, port, chosen_file, tool_marker, gcode_lines, index, running, ok_to_send, timer,
                   shots, wvars, chan, events, hist>>

PauseSending_SetOnly ==
    /\ op' = "pause"
    /\ paused' = (IF running THEN TRUE ELSE paused)
    /\ UNCHANGED <<HAS_SERIAL, port, chosen_file, tool_marker, gcode_lines, index, running, ok_to_send, timer,
                   shots, wvars, chan, events, hist>>

PauseSending ==
    /\ op' = "pause"
    /\ paused' = (IF running THEN ~paused ELSE paused)
    /\ UNCHANGED <<HAS_SERIAL, port, chosen_file, tool_marker, gcode_lines, index, running, ok_to_send, timer,
                   shots, wvars, chan, events, hist>>

\* The assignments of stop_sending, shared by the stop slot and by the
\* completion branch of _tick.
StopSendingBody_ResetIndex ==
    /\ running' = FALSE
    /\ paused' = FALSE
    /\ ok_to_send' = TRUE
    /\ IF worker THEN WorkerStop ELSE UNCHANGED w_running
    /\ timer' = FALSE
    /\ index' = 0
    /\ UNCHANGED gcode_lines

StopSendingBody ==
    /\ running' = FALSE
    /\ paused' = FALSE
    /\ ok_to_send' = TRUE
    /\ IF worker THEN WorkerStop ELSE UNCHANGED w_running
    /\ timer' = FALSE
    /\ UNCHANGED <<gcode_lines, index>>

\* stop_sending
StopSending ==
    /\ op' = "stop"
    /\ StopSendingBody
    /\ awaiting' = FALSE
    /\ UNCHANGED <<HAS_SERIAL, port, chosen_file, tool_marker, shots, worker, w_pc, w_tx, w_ser, w_emitted,
                   chan, events, handed, fresh_start>>

\* send_immediate
SendImmediate_Gated(cmd) ==
    /\ op' = "immediate"
    /\ IF WorkerConnected /\ ok_to_send
       THEN /\ InFlight < MaxInFlight
            /\ w_tx' = Append(w_tx, [line |-> cmd, kind |-> "imm"])
       ELSE UNCHANGED w_tx
    /\ UNCHANGED <<HAS_SERIAL, port, chosen_file, tool_marker, state, timer, shots, worker, w_pc, w_running,
                   w_ser, w_emitted, chan, events, hist>>

SendImmediate(cmd) ==
    /\ op' = "immediate"
    /\ IF WorkerConnected
       THEN /\ InFlight < MaxInFlight
            /\ w_tx' = Append(w_tx, [line |-> cmd, kind |-> "imm"])
       ELSE UNCHANGED w_tx
    /\ UNCHANGED <<HAS_SERIAL, port, chosen_file, tool_marker, state, timer, shots, worker, w_pc, w_running,
                   w_ser, w_emitted, chan, events, hist>>

\* on_line_received
OnLineReceived(line) == ok_to_send' = (IF IsAck(line) THEN TRUE ELSE ok_to_send)

\* The early return of _tick: "if not running or paused: return".
TickReturnsEarly_NoPause == ~running

TickReturnsEarly == ~running \/ paused

\* "if not self.state.ok_to_send: return"
TickGateClosed == ~ok_to_send

\* "if self.state.index >= len(self.state.gcode_lines)"
TickAtEnd == index >= Len(gcode_lines)

\* The completion branch of _tick: log "Completed." and stop_sending().
TickComplete_NoStop ==
    UNCHANGED <<state, timer, w_running, shots, w_tx, hist>>

TickComplete ==
    /\ StopSendingBody
    /\ awaiting' = FALSE
    /\ UNCHANGED <<shots, w_tx, handed, fresh_start>>

\* The sending branch of _tick: the line goes to the worker if one is
\* connected, otherwise a single-shot timer will play the acknowledgment;
\* in both cases the gate closes and index advances.
TickSend ==
    /\ InFlight < MaxInFlight
    /\ IF WorkerConnected
       THEN /\ w_tx' = Append(w_tx, [line |-> gcode_lines[index + 1], kind |-> "prog"])
            /\ handed' = Append(handed, gcode_lines[index + 1])
            /\ awaiting' = TRUE
            /\ UNCHANGED shots
       ELSE /\ shots' = shots + 1
            /\ UNCHANGED <<w_tx, handed, awaiting>>
    /\ ok_to_send' = FALSE
    /\ index' = index + 1
    /\ fresh_start' = "no"
    /\ tool_marker' = [shown |-> TRUE, at |-> ToolTarget(gcode_lines[index + 1])]
    /\ UNCHANGED <<gcode_lines, running, paused, timer, w_running>>

\* _tick.  The callback of the 1 ms timer; it is modelled as callable in
\* every state (it returns at once when the sender is not running).
Tick ==
    /\ IF TickReturnsEarly \/ TickGateClosed
       THEN /\ op' = "tick"
            /\ UNCHANGED <<state, timer, shots, w_running, w_tx, hist, tool_marker>>
       ELSE IF TickAtEnd
       THEN /\ op' = "tick_done"
            /\ TickComplete
            /\ UNCHANGED tool_marker
       ELSE /\ op' = "tick_send"
            /\ TickSend
    /\ UNCHANGED <<HAS_SERIAL, port, chosen_file, worker, w_pc, w_ser, w_emitted, chan, events>>

IsTick(o) == o \in {"tick", "tick_done", "tick_send"}

\* The single-shot timer of _tick fires: on_line_received("ok").
ShotFire ==
    /\ shots > 0
    /\ op' = "ack"
    /\ shots' = shots - 1
    /\ OnLineReceived(SimOk)
    /\ UNCHANGED <<HAS_SERIAL, port, chosen_file, tool_marker, gcode_lines, index, running, paused, timer,
                   wvars, chan, events, hist>>

\* The GUI thread delivers the oldest queued line_received emission to
\* on_line_received.
Deliver ==
    /\ events # <<>>
    /\ op' = "ack"
    /\ events' = Tail(events)
    /\ OnLineReceived(Head(events).arg)
    /\ awaiting' = (awaiting /\ ~IsAck(Head(events).arg))
    /\ UNCHANGED <<HAS_SERIAL, port, chosen_file, tool_marker, gcode_lines, index, running, paused, timer,
                   shots, wvars, chan, handed, fresh_start>>

\* ------------------------------------------------- worker thread: run()
\* First statements of run().  Without the serial library: the simulator
\* branch sets _running and emits connected(True).  With it: serial.Serial
\* either opens the port (then _running is set and connected(True) emitted)
\* or raises; the handler emits error and connected(False), and the finally
\* clause emits connected(False) again.  "SIMULATED" names no device.
WRunBegin ==
    /\ w_pc = "start"
    /\ IF ~HAS_SERIAL
       THEN /\ op' = "worker"
            /\ w_running' = TRUE
            /\ w_emitted' = w_emitted \o <<"connected(True)">>
            /\ w_pc' = "sim_loop"
            /\ UNCHANGED w_ser
       ELSE \E opened \in (IF port = "SIMULATED" THEN {FALSE} ELSE BOOLEAN) :
              IF opened
              THEN /\ op' = "worker"
                   /\ w_ser' = TRUE
                   /\ w_running' = TRUE
                   /\ w_emitted' = w_emitted \o <<"connected(True)">>
                   /\ w_pc' = "ser_loop"
              ELSE /\ op' = "open_fail"
                   /\ w_emitted' = w_emitted \o
                          <<"error", "connected(False)", "connected(False)">>
                   /\ w_pc' = "finished"
                   /\ UNCHANGED <<w_ser, w_running>>
    /\ UNCHANGED <<HAS_SERIAL, port, chosen_file, tool_marker, state, timer, shots, worker, w_tx, chan,
                   events, hist>>

\* Simulator loop: "while self._running"; _tx.get(timeout=0.1), then after
\* the sleep line_received.emit("ok"); queue.Empty goes round the loop; on
\* exit connected(False) is emitted.
WSimLoop_OkOnEmpty ==
    /\ w_pc = "sim_loop"
    /\ op' = "worker"
    /\ IF ~w_running
       THEN /\ w_pc' = "finished"
            /\ w_emitted' = w_emitted \o <<"connected(False)">>
            /\ UNCHANGED <<w_tx, events>>
       ELSE IF w_tx # <<>>
       THEN /\ w_tx' = Tail(w_tx)
            /\ events' = Append(events, LineReceived(SimOk, Head(w_tx).kind))
            /\ UNCHANGED <<w_pc, w_emitted>>
       ELSE /\ InFlight < MaxInFlight
            /\ events' = Append(events, LineReceived(SimOk, "none"))
            /\ UNCHANGED <<w_pc, w_emitted, w_tx>>
    /\ UNCHANGED <<HAS_SERIAL, port, chosen_file, tool_marker, state, timer, shots, worker, w_running, w_ser,
                   chan, hist>>

WSimLoop ==
    /\ w_pc = "sim_loop"
    /\ op' = "worker"
    /\ IF ~w_running
       THEN /\ w_pc' = "finished"
            /\ w_emitted' = w_emitted \o <<"connected(False)">>
            /\ UNCHANGED <<w_tx, events>>
       ELSE IF w_tx # <<>>
       THEN /\ w_tx' = Tail(w_tx)
            /\ events' = Append(events, LineReceived(SimOk, Head(w_tx).kind))
            /\ UNCHANGED <<w_pc, w_emitted>>
       ELSE UNCHANGED <<w_pc, w_emitted, w_tx, events>>
    /\ UNCHANGED <<HAS_SERIAL, port, chosen_file, tool_marker, state, timer, shots, worker, w_running, w_ser,
                   chan, hist>>

\* Serial loop, first half: "while self._running" and readline() with its
\* 50 ms timeout.  A received line is decoded, stripped and emitted; a
\* timeout returns nothing; an exception of readline is swallowed.  On exit
\* the finally clause closes the port and emits connected(False).
WSerRead ==
    /\ w_pc = "ser_loop"
    /\ IF ~w_running
       THEN /\ op' = "worker"
            /\ w_pc' = "finished"
            /\ w_ser' = FALSE
            /\ dev_in' = <<>>
            /\ dev_out' = <<>>
            /\ w_emitted' = w_emitted \o <<"connected(False)">>
            /\ UNCHANGED events
       ELSE /\ w_pc' = "ser_write"
            /\ \/ /\ dev_out # <<>>
                  /\ op' = "worker"
                  /\ events' = Append(events, LineReceived(Strip(Head(dev_out).raw),
                                                           Head(dev_out).of))
                  /\ dev_out' = Tail(dev_out)
               \/ /\ op' \in {"worker", "read_fail"}
                  /\ UNCHANGED <<events, dev_out>>
            /\ UNCHANGED <<w_ser, dev_in, w_emitted>>
    /\ UNCHANGED <<HAS_SERIAL, port, chosen_file, tool_marker, state, timer, shots, worker, w_running, w_tx,
                   hist>>

\* Serial loop, second half: get_nowait() and write().  queue.Empty goes
\* round the loop; an exception of write() leaves the loop through the outer
\* handler, which emits error and connected(False), and the finally clause
\* closes the port and emits connected(False) again.  _running is not reset
\* on this path.
WSerWrite ==
    /\ w_pc = "ser_write"
    /\ IF w_tx = <<>>
       THEN /\ op' = "worker"
            /\ w_pc' = "ser_loop"
            /\ UNCHANGED <<w_tx, w_ser, w_emitted, chan>>
       ELSE /\ w_tx' = Tail(w_tx)
            /\ \E written \in BOOLEAN :
                 IF written
                 THEN /\ op' = "worker"
                      /\ dev_in' = Append(dev_in, Head(w_tx))
                      /\ w_pc' = "ser_loop"
                      /\ UNCHANGED <<w_ser, w_emitted, dev_out>>
                 ELSE /\ op' = "write_fail"
                      /\ w_pc' = "finished"
                      /\ w_ser' = FALSE
                      /\ dev_in' = <<>>
                      /\ dev_out' = <<>>
                      /\ w_emitted' = w_emitted \o
                             <<"error", "connected(False)", "connected(False)">>
    /\ UNCHANGED <<HAS_SERIAL, port, chosen_file, tool_marker, state, timer, shots, worker, w_running, events,
                   hist>>

\* ------------------------------------------------- the device
\* The controller behind an open port answers each line it receives with
\* one "ok" line.
DeviceReply ==
    /\ dev_in # <<>>
    /\ op' = "worker"
    /\ dev_in' = Tail(dev_in)
    /\ dev_out' = Append(dev_out, [raw |-> DeviceOk, of |-> Head(dev_in).kind])
    /\ UNCHANGED <<HAS_SERIAL, port, chosen_file, tool_marker, state, timer, shots, wvars, events, hist>>

\* ------------------------------------------------- specification
Next ==
    \/ ConnectSerial
    \/ DisconnectSerial
    \/ \E p \in Programs : OpenGcode(p)
    \/ OpenGcodeNone
    \/ StartSending
    \/ PauseSending
    \/ StopSending
    \/ \E cmd \in ImmediateCmds : SendImmediate(cmd)
    \/ Tick
    \/ ShotFire
    \/ Deliver
    \/ WRunBegin
    \/ WSimLoop
    \/ WSerRead
    \/ WSerWrite
    \/ DeviceReply

Spec == Init /\ [][Next]_vars

\* ------------------------------------------------- measures
\* Program lines handed to the worker whose acknowledgment has not yet been
\* delivered to on_line_received: still in the worker's queue, in the
\* channel, or answered with the answer not yet processed.
Outstanding ==
    Cardinality({i \in 1..Len(w_tx) : w_tx[i].kind = "prog"})
    + Cardinality({i \in 1..Len(dev_in) : dev_in[i].kind = "prog"})
    + Cardinality({i \in 1..Len(dev_out) : dev_out[i].of = "prog"})
    + Cardinality({i \in 1..Len(events) : events[i].of = "prog"})

\* The tick would send: running, not paused, gate open, lines left.
Eligible == running /\ ~paused /\ ok_to_send /\ index < Len(gcode_lines)

\* The step hands exactly the given line to the worker.
Enqueues(line, kind) == w_tx' = Append(w_tx, [line |-> line, kind |-> kind])

\* A tick of an idle sender sends nothing and changes no sender state.
IdleTickSendsNothing ==
    IsTick(op') /\ ~running => UNCHANGED <<w_tx, shots, state>>

\* Only start_sending turns running on.
OnlyStartRuns == ~running /\ running' => op' = "start"

\* ------------------------------------------------- claims
\* C1: flow control -- in every reachable state at most one program line
\* handed to the worker is still waiting for its acknowledgment.
C1_AtMostOneOutstanding == Outstanding <= 1

\* C2: once the connection is lost while running (no worker, or
\* is_connected false), a tick leaves index and ok_to_send unchanged and
\* consumes no program line.
C2_NoSendWhileDisconnected ==
    [][IsTick(op') /\ running /\ ~WorkerConnected
          => UNCHANGED <<index, ok_to_send>>]_vars

\* C3: index changes only by a load, which resets it to 0, or by an eligible
\* tick, which adds exactly one, hands exactly program[index] to the worker
\* and closes the gate.
C3_IndexAdvancesWithSend ==
    [][index' # index =>
          \/ op' = "load" /\ index' = 0
          \/ /\ IsTick(op')
             /\ Eligible
             /\ index' = index + 1
             /\ Enqueues(gcode_lines[index + 1], "prog")
             /\ ~ok_to_send']_vars

\* C4: while paused, a tick enqueues no line and leaves index, ok_to_send,
\* running and paused unchanged.
C4_PausedTickIsNoOp ==
    [][IsTick(op') /\ paused
          => UNCHANGED <<w_tx, shots, index, ok_to_send, running, paused>>]_vars

C4_Witness ==
    /\ op = "tick"
    /\ paused /\ running /\ ok_to_send
    /\ index < Len(gcode_lines)
    /\ WorkerConnected

\* C5: a tick that is running, not paused, with the gate open and
\* index >= len turns running off with index = len and sends nothing; while
\* the sender is idle no tick sends a line; and only a start makes it run
\* again.
C5_Completion ==
    [][/\ IsTick(op') /\ running /\ ~paused /\ ok_to_send /\ index >= Len(gcode_lines)
          => /\ ~running'
             /\ index' = Len(gcode_lines')
             /\ UNCHANGED <<w_tx, shots, index, gcode_lines>>
       /\ IdleTickSendsNothing
       /\ OnlyStartRuns]_vars

C5_Witness ==
    /\ op = "tick_done"
    /\ ~running
    /\ index = Len(gcode_lines)
    /\ index = MaxProgLen
    /\ handed = gcode_lines

\* ------------------------------------------------- streaming scenario
\* One program of at least one line, the simulator worker, one start, and
\* then only the timer, the worker thread and the GUI event loop run.  The
\* timer fires every millisecond while active, the worker thread is
\* scheduled and the event loop delivers queued signals: weak fairness.
Lines == {"G0 X10", "G1 Y5 F100"}

StreamPrograms == UNION {[1..n -> Lines] : n \in 1..MaxProgLen}

StreamInit == Init /\ ~HAS_SERIAL

StreamLoad == gcode_lines = <<>> /\ \E p \in StreamPrograms : OpenGcode(p)

StreamConnect == ~worker /\ ConnectSerial

StreamStart == WorkerConnected /\ ~running /\ index = 0 /\ StartSending

StreamNext ==
    \/ StreamLoad
    \/ StreamConnect
    \/ StreamStart
    \/ Tick
    \/ Deliver
    \/ WRunBegin
    \/ WSimLoop

StreamSpec ==
    /\ StreamInit
    /\ [][StreamNext]_vars
    /\ WF_vars(StreamLoad)
    /\ WF_vars(StreamConnect)
    /\ WF_vars(StreamStart)
    /\ WF_vars(Tick)
    /\ WF_vars(Deliver)
    /\ WF_vars(WRunBegin)
    /\ WF_vars(WSimLoop)

StreamDone ==
    /\ ~running
    /\ Len(gcode_lines) >= 1
    /\ index = Len(gcode_lines)
    /\ handed = gcode_lines
    /\ Outstanding = 0

\* C6: in the streaming scenario the worker is handed program[0],
\* program[1], ... in order, each only after the previous one was
\* acknowledged, and the sender eventually is idle with index = N and the
\* whole program handed over.
C6_StreamsToCompletion ==
    /\ [](handed = SubSeq(gcode_lines, 1, index) /\ Outstanding <= 1)
    /\ <>StreamDone

C6_Witness ==
    /\ op = "tick_done"
    /\ StreamDone
    /\ Len(gcode_lines) = MaxProgLen
    /\ gcode_lines[1] # gcode_lines[2]

\* C7: send_immediate with a connected worker enqueues the command exactly
\* once, whatever ok_to_send, running and paused are, and leaves program,
\* index, running, paused and ok_to_send unchanged.
C7_ImmediateBypassesGate ==
    [][op' = "immediate" /\ WorkerConnected
          => /\ \E cmd \in ImmediateCmds : Enqueues(cmd, "imm")
             /\ UNCHANGED state]_vars

C7_Witness ==
    /\ op = "immediate"
    /\ WorkerConnected
    /\ running /\ paused /\ ~ok_to_send
    /\ w_tx # <<>>
    /\ w_tx[Len(w_tx)].kind = "imm"

\* C8: after a stop in the middle of the program and a later accepted
\* start, the first line handed to the worker is program[0].
C8_RestartFromFirstLine ==
    [][IsTick(op') /\ fresh_start = "after_stop_mid" /\ Len(w_tx') = Len(w_tx) + 1
          => index = 0 /\ Enqueues(gcode_lines[1], "prog")]_vars

\* C9: stop is enabled in every state and sets running = false,
\* paused = false, ok_to_send = true, leaving index and program unchanged.
C9_Stop ==
    /\ [](ENABLED StopSending)
    /\ [][op' = "stop"
             => /\ ~running' /\ ~paused' /\ ok_to_send'
                /\ UNCHANGED <<index, gcode_lines>>]_vars

C9_Witness ==
    /\ op = "stop"
    /\ 0 < index /\ index < Len(gcode_lines)
    /\ Outstanding = 1
    /\ ~running /\ ~paused /\ ok_to_send

\* C10: a load is enabled in every state, for every program, and yields that
\* program with index = 0, running = false, paused = false,
\* ok_to_send = true; afterwards no tick sends a line until a start.
C10_Load ==
    /\ [](\A p \in Programs : ENABLED OpenGcode(p))
    /\ [][/\ \A p \in Programs :
                OpenGcode(p) => state' = <<p, 0, FALSE, FALSE, TRUE>>
          /\ op' = "load" => index' = 0 /\ ~running' /\ ~paused' /\ ok_to_send'
          /\ IdleTickSendsNothing
          /\ OnlyStartRuns]_vars

C10_Witness ==
    /\ op = "load"
    /\ timer
    /\ Outstanding = 1
    /\ gcode_lines # <<>>
    /\ state = <<gcode_lines, 0, FALSE, FALSE, TRUE>>

\* C11: start() with no connected worker or with an empty program is rejected
\* and leaves program, index, running, paused and ok_to_send as they were, so
\* an idle sender stays idle; a start that is not rejected sets running, and
\* running is set by start only with a connected worker and a loaded program.
C11_StartRejected ==
    [][op' = "start" =>
         /\ (~WorkerConnected \/ gcode_lines = <<>>) => UNCHANGED <<state, timer>>
         /\ (WorkerConnected /\ gcode_lines # <<>>) => running'
         /\ (~running /\ running') => (WorkerConnected /\ gcode_lines # <<>>)]_vars

C11_Witness ==
    /\ op = "start"
    /\ ~running
    /\ gcode_lines # <<>>
    /\ index = 0
    /\ ~WorkerConnected

\* C12: in every reachable state paused implies running.
C12_PausedImpliesRunning == paused => running

C12_Witness == op = "pause" /\ paused /\ running /\ index > 0

\* C13: in every reachable state 0 <= index <= length of the program, also
\* after a shorter or empty program replaced the one being streamed and after
\* the program completed.
C13_IndexInRange == 0 <= index /\ index <= Len(gcode_lines)

C13_Witness ==
    /\ op = "load"
    /\ gcode_lines = <<>>
    /\ Outstanding >= 1

\* C14: pause() on a running sender flips paused and changes nothing else;
\* on a sender that is not running it changes nothing.  (Two flips in a row
\* give back the first value.)
C14_PauseToggles ==
    [][op' = "pause" =>
         /\ paused' = (IF running THEN ~paused ELSE paused)
         /\ UNCHANGED <<gcode_lines, index, running, ok_to_send, timer, shots,
                        wvars, chan, events>>]_vars

C14_Witness == op = "pause" /\ running /\ ~paused /\ index > 0 /\ ~ok_to_send


\* ------------------------------------------------- inbound-line scenario
\* A serial device that says what it likes: acknowledgments in several
\* spellings, error reports, empty lines, text that merely contains "ok".
\* It answers a line it received, or speaks unasked on a quiet line.
InboundLines ==
    { <<"o", "k", "\r", "\n">>,
      <<"O", "K", "\r", "\n">>,
      <<" ", "O", "k", ":", "1", "\r", "\n">>,
      <<"e", "r", "r", "o", "r", "\r", "\n">>,
      <<"k", "o", "k", "\r", "\n">>,
      <<"o", "\r", "\n">>,
      <<"\r", "\n">> }

DeviceSays(raw) ==
    /\ w_ser
    /\ dev_in # <<>> \/ InFlight = 0
    /\ op' = "worker"
    /\ IF dev_in # <<>>
       THEN /\ dev_in' = Tail(dev_in)
            /\ dev_out' = Append(dev_out, [raw |-> raw, of |-> Head(dev_in).kind])
       ELSE /\ dev_out' = Append(dev_out, [raw |-> raw, of |-> "none"])
            /\ UNCHANGED dev_in
    /\ UNCHANGED <<HAS_SERIAL, port, chosen_file, tool_marker, state, timer, shots, wvars, events, hist>>

AckInit == Init /\ HAS_SERIAL /\ port = "/dev/ttyUSB0"

AckNext ==
    \/ ConnectSerial
    \/ \E p \in Programs : OpenGcode(p)
    \/ StartSending
    \/ PauseSending
    \/ Tick
    \/ Deliver
    \/ WRunBegin
    \/ WSerRead
    \/ WSerWrite
    \/ \E raw \in InboundLines : DeviceSays(raw)

AckSpec == AckInit /\ [][AckNext]_vars

\* The line, leading white space skipped, begins with o or O and then k or K.
BeginsWithOk(line) ==
    \E i \in 1..(Len(line) - 1) :
        /\ \A j \in 1..(i - 1) : line[j] \in {" ", "\t", "\r", "\n"}
        /\ line[i] \in {"o", "O"}
        /\ line[i + 1] \in {"k", "K"}

\* C15: on_line_received(line) sets ok_to_send when the trimmed, case-folded
\* line begins with "ok" and leaves ok_to_send as it was for any other line;
\* index, running, paused and the program are unchanged in both cases.
C15_AckOpensGate ==
    [][op' = "ack" /\ events # <<>> =>
         /\ ok_to_send' = (ok_to_send \/ BeginsWithOk(Head(events).arg))
         /\ UNCHANGED <<index, running, paused, gcode_lines>>]_vars

C15_Witness ==
    /\ op = "ack"
    /\ running
    /\ ok_to_send
    /\ 0 < index
    /\ index < Len(gcode_lines)
    /\ fresh_start = "no"


\* C16: once a program line went to a connected worker, and as long as no
\* ok line arrives and no load, start or stop is invoked, no step changes
\* index or hands a further program line to the worker, however many ticks
\* fire.
C16_StallWithoutAck ==
    [][awaiting /\ op' \notin {"load", "start", "stop"} =>
         UNCHANGED <<index, handed>>]_vars


\* C17: a worker connected with the port "SIMULATED" is the built-in
\* simulator whatever HAS_SERIAL is: once its run() has begun, its first
\* signal is connected(True) and it never emits error.
C17_SimulatedIsSimulator ==
    (worker /\ port = "SIMULATED" /\ w_pc # "start") =>
        /\ w_emitted # <<>>
        /\ w_emitted[1] = "connected(True)"
        /\ \A i \in 1..Len(w_emitted) : w_emitted[i] # "error"


\* ------------------------------------------------- connection scenario
\* Connecting, disconnecting and immediate commands only; the sender stays
\* idle.  The worker thread, once started, keeps being scheduled: weak
\* fairness on its steps.
ConnNext ==
    \/ ConnectSerial
    \/ DisconnectSerial
    \/ \E cmd \in ImmediateCmds : SendImmediate(cmd)
    \/ Deliver
    \/ WRunBegin
    \/ WSimLoop
    \/ WSerRead
    \/ WSerWrite
    \/ DeviceReply

ConnSpec ==
    /\ Init
    /\ [][ConnNext]_vars
    /\ WF_vars(WRunBegin)
    /\ WF_vars(WSimLoop)
    /\ WF_vars(WSerRead)
    /\ WF_vars(WSerWrite)

\* C18: after disconnect() on a started worker whose run() has not returned,
\* the worker eventually leaves run() with connected(False) as its last
\* signal, also when disconnect() came before the first statement of run().
C18_DisconnectTakesEffect ==
    [](op = "disconnect" /\ IsRunningThread =>
         <>(/\ w_pc = "finished"
            /\ w_emitted # <<>>
            /\ w_emitted[Len(w_emitted)] = "connected(False)"))

\* The same for a disconnect() that comes after run() has begun.
C18_AfterRunBegan ==
    [](op = "disconnect" /\ IsRunningThread /\ w_pc # "start" =>
         <>(/\ w_pc = "finished"
            /\ w_emitted # <<>>
            /\ w_emitted[Len(w_emitted)] = "connected(False)"))


\* The signals the worker emits in the step, and how often one occurs.
Emitted == SubSeq(w_emitted', Len(w_emitted) + 1, Len(w_emitted'))

Count(seq, x) == Cardinality({i \in 1..Len(seq) : seq[i] = x})

\* C19: a failed read and a failed write on the open port both end the
\* worker: run() returns in that step, having emitted error and
\* connected(False).
C19_IoFailureIsFatal ==
    [][op' \in {"read_fail", "write_fail"} =>
         /\ w_pc' = "finished"
         /\ Count(Emitted, "error") >= 1
         /\ Count(Emitted, "connected(False)") >= 1]_vars

\* The write half alone.
C19_WriteFailureIsFatal ==
    [][op' = "write_fail" =>
         /\ w_pc' = "finished"
         /\ Count(Emitted, "error") >= 1
         /\ Count(Emitted, "connected(False)") >= 1]_vars

\* C20: a failed open emits error once and connected(False) once and never
\* connected(True); afterwards the worker is not connected, run() has
\* returned (no retry) and the sender state is as it was.
C20_OpenFailure ==
    [][op' = "open_fail" =>
         /\ Count(Emitted, "error") = 1
         /\ Count(Emitted, "connected(False)") = 1
         /\ Count(w_emitted', "connected(True)") = 0
         /\ ~WorkerConnected'
         /\ w_pc' = "finished"
         /\ UNCHANGED <<state, timer>>]_vars

\* The same with connected(False) emitted at least once.
C20_OpenFailureReported ==
    [][op' = "open_fail" =>
         /\ Count(Emitted, "error") = 1
         /\ Count(Emitted, "connected(False)") >= 1
         /\ Count(w_emitted', "connected(True)") = 0
         /\ ~WorkerConnected'
         /\ w_pc' = "finished"
         /\ UNCHANGED <<state, timer>>]_vars


\* C21: a connect() that directly follows a disconnect() makes and starts a
\* fresh worker (thread not yet begun, flag down, empty queue, nothing
\* emitted), also when the old worker thread has not finished exiting.
C21_ReconnectIsFresh ==
    [][op = "disconnect" /\ op' = "connect" =>
         /\ worker'
         /\ w_pc' = "start"
         /\ ~w_running'
         /\ w_tx' = <<>>
         /\ w_emitted' = <<>>]_vars

\* C22: disconnect() with no worker, with a worker whose run() has returned
\* or with one whose flag is already down changes nothing and emits nothing;
\* any disconnect() changes at most the worker's flag, so a second call in a
\* row changes nothing.
C22_DisconnectIdempotent ==
    [][op' = "disconnect" =>
         /\ UNCHANGED <<state, timer, shots, worker, w_pc, w_tx, w_ser,
                        w_emitted, chan, events>>
         /\ ~w_running'
              \/ (worker /\ w_pc = "finished" /\ UNCHANGED w_running)
         /\ (~worker \/ ~IsRunningThread \/ ~w_running \/ op = "disconnect")
              => UNCHANGED w_running]_vars

C22_Witness ==
    /\ op = "disconnect"
    /\ worker
    /\ w_pc = "finished"
    /\ w_running
    /\ running


\* C23: a tick that sends a line moves each axis named in the line to the
\* line's value and keeps each axis not named where it was, and the position
\* changes in no step other than a sending tick, a load or a stop.
C23_PositionCumulative ==
    [][/\ op' = "tick_send" /\ index' = index + 1 =>
            \A a \in Axes :
                tool_marker'.at[a] =
                    IF \E i \in 1..Len(Words(gcode_lines[index + 1])) :
                           Words(gcode_lines[index + 1])[i].letter = a
                    THEN Coords(gcode_lines[index + 1])[a]
                    ELSE tool_marker.at[a]
       /\ tool_marker' # tool_marker => op' \in {"tick_send", "load", "stop"}]_vars


\* ------------------------------------------------- loader scenario
\* A file is chosen in the dialog and loaded, any number of times.
LoadInit == Constructed /\ chosen_file \in Files

LoadChosen == OpenGcode(Loaded(chosen_file))

LoadNext == LoadChosen \/ OpenGcodeNone

LoadSpec == LoadInit /\ [][LoadNext]_vars

\* Sendable in the words of the interface: trimmed, the line is not empty,
\* does not start with ";" or "(", and begins with G, M or T and a digit.
IsSendable(line) ==
    LET t == Strip(line)
    IN  /\ t # <<>>
        /\ t[1] \notin {";", "("}
        /\ t[1] \in {"G", "M", "T"}
        /\ Len(t) >= 2
        /\ t[2] \in Digits

\* C24: is_gcode_line(line) is true exactly for the lines that, trimmed, are
\* not empty, do not start with ";" or "(" and begin with G, M or T followed
\* by a digit; it is false for blank lines, comments and lines starting with
\* any other character, "#" included.
C24_SendableIffCommand ==
    op = "load" =>
        \A i \in 1..Len(chosen_file) :
            is_gcode_line(chosen_file[i]) <=> IsSendable(chosen_file[i])

\* C25: after a load the program is the sendable lines of the file,
\* comment-stripped, in their order, as many as the file has sendable lines,
\* and none of them is empty.
C25_LoaderRoundTrip ==
    op = "load" =>
        LET sendable == SelectSeq(chosen_file, IsSendable)
        IN  /\ Len(gcode_lines) = Len(sendable)
            /\ \A i \in 1..Len(sendable) : gcode_lines[i] = strip_comment(sendable[i])
            /\ \A i \in 1..Len(gcode_lines) : gcode_lines[i] # <<>>


C27_StopLeavesWorker ==
    [][op' = "stop" => UNCHANGED <<wvars, chan, events, shots>>]_vars

\* C28: once the worker's run() has returned, for whatever reason,
\* is_connected is false.
C28_DeadWorkerNotConnected == (worker /\ w_pc = "finished") => ~WorkerConnected

\* C29: a worker emits connected(True) at most once and before any
\* line_received, and when its run() returns it has emitted
\* connected(False) exactly once, as its last signal.
C29_EventOrder ==
    [][/\ Count(w_emitted', "connected(True)") <= 1
       /\ (Len(events') > Len(events) /\ op' # "ack") =>
              Count(w_emitted, "connected(True)") = 1
       /\ w_pc' = "finished" =>
              /\ Count(w_emitted', "connected(False)") = 1
              /\ w_emitted'[Len(w_emitted')] = "connected(False)"]_vars

\* The same with connected(False) allowed more than once at the end.
C29_EventOrderRepeatedFalse ==
    [][/\ Count(w_emitted', "connected(True)") <= 1
       /\ (Len(events') > Len(events) /\ op' # "ack") =>
              Count(w_emitted, "connected(True)") = 1
       /\ w_pc' = "finished" =>
              /\ Count(w_emitted', "connected(False)") >= 1
              /\ w_emitted'[Len(w_emitted')] = "connected(False)"]_vars

\* C30: when a tick reports completion, the program lines handed to the
\* worker since the load are the program, each line once and in order.
C30_CompletedMeansAllSent == op = "tick_done" => handed = gcode_lines


TypeOK ==
    /\ index \in 0..MaxProgLen
    /\ shots \in Nat
    /\ awaiting \in BOOLEAN
    /\ tool_marker.shown \in BOOLEAN

====
